---- MODULE Spec2Model ----
(***************************************************************************)
(* The payment-allocation and return-settlement ledger of the store        *)
(* management backend: PaymentService (record_payment, reverse_payment),   *)
(* InvoiceReturnService (create_return, update_return_status) and the      *)
(* request-scoped database session of api/dependencies.get_db.             *)
(*                                                                         *)
(* Money is counted in hundredths of a currency unit, so that the float    *)
(* tolerance 0.01 of the code is the integer 1; float rounding error is    *)
(* not modelled.                                                           *)
(*                                                                         *)
(* Every request runs in its own session (get_db).  A session is one       *)
(* database transaction: what it flushes stays private until commit(), and *)
(* session.close() without a commit discards it.  Objects a session has    *)
(* loaded stay in its identity map: a later query of the same row returns  *)
(* the object already loaded, its attributes as the session last saw or    *)
(* set them.  Query.with_for_update() takes the row lock of the invoice,   *)
(* which the transaction holds until it ends; a transaction that needs a   *)
(* lock another one holds waits.  An INSERT of a payment whose unique      *)
(* payment_number an uncommitted transaction has inserted waits as well,   *)
(* and fails once that number is committed.                                *)
(***************************************************************************)
EXTENDS Integers, Sequences, FiniteSets, TLC

\* ------------------------------------------------------------------ bounds
MaxPay == 2          \* payments recorded by record_payment
MaxDay == 2          \* calendar days the clock runs through
MaxRet == 1          \* returns created by create_return
MaxRev == 1          \* payments reversed by reverse_payment

\* ------------------------------------------------------------------ constants
EPS == 1             \* the float tolerance 0.01

Invoices == {1, 2}
Customers == {1, 2}
Sessions == {1, 2}
NoInvoice == 3       \* an invoice id that names no invoice
InvoiceIds == Invoices \cup {NoInvoice}
NoCustomer == 3      \* a customer id that names no customer

Cols == {"paid", "refunded", "remaining", "status"}

Min(a, b) == IF a <= b THEN a ELSE b
Max(a, b) == IF a >= b THEN a ELSE b
Abs(a) == IF a >= 0 THEN a ELSE -a

RECURSIVE SumSeq(_)
SumSeq(q) == IF q = <<>> THEN 0 ELSE Head(q) + SumSeq(Tail(q))

\* ------------------------------------------------------------------ state
VARIABLES
    invoices,      \* committed invoices rows
    payments,      \* committed payments rows
    allocations,   \* committed payment_allocations rows, in insertion order
    sess,          \* the sessions: position of the request and its transaction
    rowlock,       \* invoice id -> session holding its row lock, 0 if free
    returns,       \* committed invoice_returns rows, each with its return items
    stock,         \* stock_quantity of the product of each invoice line
    today,         \* the calendar day get_vn_time() reports
    last           \* the payment recorded last and the invoices before it, while
                   \* nothing but its reversal has started since

vars == <<invoices, payments, allocations, returns, stock, sess, rowlock, today, last>>


\* Invoice.__init__ as create_invoice fills it for an unpaid invoice.
NewInvoice(cust, total, status, exported, created) ==
    [customer |-> cust, total |-> total, paid |-> 0, refunded |-> 0,
     remaining |-> Max(0, total - 0), status |-> status,
     exported |-> exported, created |-> created]

\* The single line of invoice i: its id is i, it sells ItemQuantity(i) units of
\* product i at ItemPrice(i) each, which add up to the total of the invoice.
ItemPrice(i) == 2
ItemQuantity(i) == i + 1
InvoiceItems(i) == {i}
InvoiceTotal(i) == ItemQuantity(i) * ItemPrice(i)

\* The invoices the ledger starts from: invoice 1 is an exported pending
\* invoice of customer 1; invoice 2 is newer and varies.
InitInvoices ==
    { [i \in Invoices |->
         IF i = 1 THEN NewInvoice(1, InvoiceTotal(1), "pending", TRUE, 1)
         ELSE NewInvoice(v[1], InvoiceTotal(2), v[2], v[3], 2)] :
      v \in { <<1, "pending", TRUE>>, <<1, "pending", FALSE>>,
              <<1, "processing", FALSE>>, <<1, "cancelled", TRUE>>,
              <<2, "pending", TRUE>> } }

\* A payment number: PAY-<day>-<seq>, or REFUND-<return number>.
PayNumber(day, seq) == [kind |-> "PAY", day |-> day, seq |-> seq]
NoNumber == [kind |-> "", day |-> 0, seq |-> 0]

NoRow == NewInvoice(0, 0, "none", FALSE, 0)

\* No debt summary computed.
NoSummary ==
    [total_debt |-> 0, total_revenue |-> 0, total_refunded |-> 0,
     total_net_revenue |-> 0, total_invoices |-> 0, unpaid_invoices |-> 0,
     partially_paid_invoices |-> 0, overdue_debt |-> 0, overdue_invoices |-> 0,
     invoices |-> <<>>]

IdleSess ==
    [pc |-> "idle", op |-> "", why |-> "", cust |-> 0, amount |-> 0, mode |-> "",
     ids |-> {}, manual |-> <<>>, number |-> NoNumber, notes |-> FALSE,
     payrow |-> {}, newAllocs |-> <<>>,
     loaded |-> {}, obj |-> [i \in Invoices |-> NoRow],
     base |-> [i \in Invoices |-> NoRow], wcols |-> [i \in Invoices |-> {}],
     cands |-> <<>>, candRem |-> <<>>, idx |-> 1, left |-> 0,
     pid |-> 0, rvAllocs |-> <<>>, ret |-> {}, newStatus |-> "", method |-> FALSE,
     summary |-> NoSummary]

\* Nothing remembered of the request that finished last.
NoLast == [op |-> "", pid |-> 0, pre |-> <<>>]

Init ==
    /\ invoices \in InitInvoices
    /\ payments = {}
    /\ allocations = <<>>
    /\ returns = {}
    /\ stock = [i \in Invoices |-> 0]
    /\ sess = [s \in Sessions |-> IdleSess]
    /\ rowlock = [i \in Invoices |-> 0]
    /\ today = 1
    /\ last = NoLast

\* ------------------------------------------------------------------ session
\* The uncommitted payment rows of the sessions other than s.
PendingPayments(s) == UNION { sess[t].payrow : t \in Sessions \ {s} }

AllPaymentRows == payments \cup PendingPayments(0)

\* Integer primary key of the next inserted payment (rowid: largest + 1).
NextPaymentId ==
    IF AllPaymentRows = {} THEN 1
    ELSE 1 + (CHOOSE m \in { p.id : p \in AllPaymentRows } :
                \A p \in AllPaymentRows : p.id <= m)

\* A session that reads the row again on every query.
WithLoadedRefreshed(sr, i) ==
    [sr EXCEPT !.loaded = @ \cup {i}, !.obj[i] = invoices[i], !.base[i] = invoices[i]]

\* Session.query(...).first(): the session with invoice i loaded; the object of
\* the identity map is kept when the row is already loaded.
WithLoaded(sr, i) ==
    IF i \in sr.loaded THEN sr
    ELSE [sr EXCEPT !.loaded = @ \cup {i}, !.obj[i] = invoices[i],
                    !.base[i] = invoices[i]]

RECURSIVE WithLoadedAll(_, _)
WithLoadedAll(sr, I) ==
    IF I = {} THEN sr
    ELSE LET i == CHOOSE j \in I : TRUE IN WithLoadedAll(WithLoaded(sr, i), I \ {i})

\* Session.flush(): an UPDATE of the columns of each loaded invoice that changed
\* since the last flush; the writes stay inside the transaction.
ChangedCols(sr, i) == { c \in Cols : sr.obj[i][c] # sr.base[i][c] }
Flushed(sr) ==
    [sr EXCEPT !.wcols = [i \in Invoices |->
                            IF i \in sr.loaded THEN @[i] \cup ChangedCols(sr, i) ELSE @[i]],
               !.base = [i \in Invoices |-> IF i \in sr.loaded THEN sr.obj[i] ELSE @[i]]]

CanLock(s, I) == \A i \in I : rowlock[i] \in {0, s}
Locked(s, I) == [i \in Invoices |-> IF i \in I THEN s ELSE rowlock[i]]
Released(s) == [i \in Invoices |-> IF rowlock[i] = s THEN 0 ELSE rowlock[i]]

\* Session.commit(): flush, then publish the written columns and inserted rows.
CommittedInvoices(sr) ==
    LET f == Flushed(sr) IN
    [i \in Invoices |->
        [c \in DOMAIN invoices[i] |->
            IF c \in f.wcols[i] THEN f.obj[i][c] ELSE invoices[i][c]]]

Failed(sr, why) == [sr EXCEPT !.pc = "failed", !.why = why]

\* get_db: the finally clause closes the session; an uncommitted transaction is
\* rolled back and its locks are released.
\* A close that commits what the session had flushed.
RolledBackCommitting(sr) ==
    [invoices |-> CommittedInvoices(sr), payments |-> payments \cup sr.payrow,
     allocations |-> allocations \o sr.newAllocs]

RolledBack(sr) ==
    [invoices |-> invoices, payments |-> payments, allocations |-> allocations]

CloseSession(s) ==
    /\ sess[s].pc \in {"failed", "returned"}
    /\ invoices' = RolledBack(sess[s]).invoices
    /\ payments' = RolledBack(sess[s]).payments
    /\ allocations' = RolledBack(sess[s]).allocations
    /\ sess' = [sess EXCEPT ![s] = IdleSess]
    /\ rowlock' = Released(s)
    /\ UNCHANGED <<returns, stock, today, last>>

\* The calendar day advances.
Tick ==
    /\ today < MaxDay
    /\ today' = today + 1
    /\ UNCHANGED <<invoices, payments, allocations, returns, stock, sess, rowlock, last>>

\* ------------------------------------------------------------------ record_payment
\* What a caller may send as manual_allocations: a dict, in insertion order.
ManualMaps ==
    { <<>>,
      << <<1, 2>> >>, << <<1, 4>> >>, << <<2, 2>> >>, << <<1, -2>> >>,
      << <<NoInvoice, 2>> >>,
      << <<1, 2>>, <<2, 2>> >>, << <<1, 4>>, <<2, 4>> >>, << <<2, 2>>, <<1, 4>> >>,
      << <<1, 2>>, <<NoInvoice, 2>> >> }

\* What a caller may send as notes: free text, which holds the marker of a reversed payment or
\* does not.
PlainNotes == {FALSE}
AnyNotes == BOOLEAN

\* What a caller may send as invoice_ids.
IdLists == {{}, {2}, Invoices, {NoInvoice}}

\* Who a caller may name as the paying customer.
Payers == {1, NoCustomer}

\* What a caller may send as amount: nothing, the tolerance, the total of invoice
\* 1, that and half of invoice 2, and one hundredth more than both invoices.
PayAmounts == {0, EPS, InvoiceTotal(1), InvoiceTotal(1) + 3,
               InvoiceTotal(1) + InvoiceTotal(2) + 1}

ManualValues(m) == [k \in 1 .. Len(m) |-> m[k][2]]

\* A validation that lets the sum exceed the amount by the tolerance.
ValidateAllocationsTolerant(amount, manual) ==
    ~(manual # <<>> /\ SumSeq(ManualValues(manual)) > amount + EPS)

\* PaymentCreate: Field(gt=0) on amount, and validate_allocations.
ValidateAllocations(amount, manual) ==
    ~(manual # <<>> /\ SumSeq(ManualValues(manual)) > amount)

SchemaError(amount, manual) ==
    IF ~(amount > 0) THEN "schema_amount"
    ELSE IF ~ValidateAllocations(amount, manual) THEN "schema_allocations"
    ELSE ""

\* _generate_payment_number: PAY-<today>-<count of today's payments + 1>.
GeneratePaymentNumber ==
    PayNumber(today,
              Cardinality({ p \in payments :
                              p.number.kind = "PAY" /\ p.number.day = today }) + 1)

\* record_payment up to the construction of the Payment (lines 65-83).
RecordPaymentBegin(sr, cust, amount, ids, manual, notes) ==
    IF amount <= 0 THEN Failed(sr, "amount")
    ELSE IF cust \notin Customers THEN Failed(sr, "customer")
    ELSE [sr EXCEPT !.pc = "rp_flush",
                    !.mode = IF manual # <<>> THEN "manual"
                             ELSE IF ids # {} THEN "semi" ELSE "auto",
                    !.number = GeneratePaymentNumber, !.left = amount]

\* The route record_payment: the request body is validated by PaymentCreate, then
\* the service is called.
RecordPaymentWith(s, Custs, Amounts, Lists, Maps, Notes) ==
    /\ sess[s].pc = "idle"
    /\ Cardinality({ p \in payments : p.number.kind = "PAY" })
         + Cardinality({ t \in Sessions : sess[t].op = "record" }) < MaxPay
    /\ \E cust \in Custs, amount \in Amounts, ids \in Lists, manual \in Maps,
          notes \in Notes :
          /\ manual # <<>> => ids = {}
          /\ LET sr == [IdleSess EXCEPT !.op = "record", !.cust = cust,
                                        !.amount = amount, !.ids = ids,
                                        !.manual = manual, !.notes = notes]
                 err == SchemaError(amount, manual)
             IN sess' = [sess EXCEPT ![s] =
                           IF err # "" THEN Failed(sr, err)
                           ELSE RecordPaymentBegin(sr, cust, amount, ids, manual, notes)]
    /\ last' = NoLast
    /\ UNCHANGED <<invoices, payments, allocations, returns, stock, rowlock, today>>

\* self.db.add(payment); self.db.flush(): the INSERT waits for an uncommitted row
\* with the same unique payment_number and fails on a committed one.
RpFlush(s) ==
    LET sr == sess[s] IN
    /\ sr.pc = "rp_flush"
    /\ \A p \in PendingPayments(s) : p.number # sr.number
    /\ sess' = [sess EXCEPT ![s] =
          IF \E p \in payments : p.number = sr.number THEN Failed(sr, "integrity")
          ELSE [sr EXCEPT !.payrow = {[id |-> NextPaymentId, number |-> sr.number,
                                       customer |-> sr.cust, amount |-> sr.amount,
                                       marked |-> sr.notes, reversals |-> 0]},
                          !.pc = IF sr.mode = "manual" THEN "rp_manual" ELSE "rp_query"]]
    /\ UNCHANGED <<invoices, payments, allocations, returns, stock, rowlock, today, last>>

\* order_by(Invoice.created_at.asc())
RECURSIVE SortByCreated(_)
SortByCreated(S) ==
    IF S = {} THEN <<>>
    ELSE LET i == CHOOSE j \in S : \A k \in S : invoices[j].created <= invoices[k].created
         IN <<i>> \o SortByCreated(S \ {i})

\* A semi-auto query that takes the named invoices of any customer.
SemiCandidatesAnyCustomer(ids, cust) ==
    { i \in Invoices : i \in ids /\ invoices[i].remaining > 0 }

\* The filter of the semi-auto query (lines 102-106).
SemiCandidates(ids, cust) ==
    { i \in Invoices : i \in ids /\ invoices[i].customer = cust
                       /\ invoices[i].remaining > 0 }

\* A full-auto query that takes invoices whether exported or not.
AutoCandidatesUnexported(cust) ==
    { i \in Invoices : /\ invoices[i].customer = cust
                       /\ invoices[i].status \in {"pending", "paid"}
                       /\ invoices[i].remaining > 0 }

\* The filter of the full-auto query (lines 123-128).
AutoCandidates(cust) ==
    { i \in Invoices : /\ invoices[i].customer = cust
                       /\ invoices[i].status \in {"pending", "paid"}
                       /\ invoices[i].remaining > 0
                       /\ invoices[i].exported }

\* sum(inv.remaining_amount for inv in invoices)
RECURSIVE TotalDebt(_, _)
TotalDebt(sr, q) ==
    IF q = <<>> THEN 0 ELSE sr.obj[Head(q)].remaining + TotalDebt(sr, Tail(q))

\* An overpayment check that forgives the tolerance.
OverPaymentTolerant(amount, total_debt) == amount > total_debt + EPS

\* The overpayment check of the full-auto mode (line 137).
OverPayment(amount, total_debt) == amount > total_debt

\* The candidate query of the two FIFO modes, with the checks that follow it.
RpQuery(s) ==
    LET sr == sess[s]
        C == IF sr.mode = "semi" THEN SemiCandidates(sr.ids, sr.cust)
             ELSE AutoCandidates(sr.cust)
        q == SortByCreated(C)
        sl == WithLoadedAll(sr, C)
    IN
    /\ sr.pc = "rp_query"
    /\ sess' = [sess EXCEPT ![s] =
          IF C = {} THEN Failed(sr, "no_invoices")
          ELSE IF sr.mode = "auto" /\ OverPayment(sr.amount, TotalDebt(sl, q))
               THEN Failed(sl, "overpayment")
          ELSE [sl EXCEPT !.pc = "rp_fifo", !.cands = q,
                          !.candRem = [k \in 1 .. Len(q) |-> sl.obj[q[k]].remaining],
                          !.idx = 1, !.left = sr.amount]]
    /\ UNCHANGED <<invoices, payments, allocations, returns, stock, rowlock, today, last>>

\* _allocate_to_invoice: the bound on a single invoice (line 175).
AllocationAllowed(inv, amount) == ~(amount > inv.remaining + EPS)

\* _allocate_to_invoice: the update of the invoice (lines 190-197).
ApplyAllocation(inv, amount) ==
    LET r == inv.remaining - amount IN
    [inv EXCEPT !.paid = @ + amount,
                !.remaining = IF r <= EPS THEN 0 ELSE r,
                !.status = IF r <= EPS THEN "paid" ELSE @]

PaymentId(sr) == (CHOOSE p \in sr.payrow : TRUE).id

\* _allocate_to_invoice, once the row lock of invoice i is granted.
AllocateToInvoice(sr, i, amount) ==
    IF i \notin Invoices THEN Failed(sr, "invoice")
    ELSE LET sl == WithLoaded(sr, i)
             inv == sl.obj[i]
         IN IF ~AllocationAllowed(inv, amount) THEN Failed(sl, "over_invoice")
            ELSE Flushed([sl EXCEPT
                   !.newAllocs = Append(@, [payment |-> PaymentId(sr), invoice |-> i,
                                            amount |-> amount]),
                   !.obj[i] = ApplyAllocation(inv, amount)])

\* An allocation that leaves two hundredths of every invoice unpaid.
FifoAmountShort(left, remaining) == Min(left, remaining - 2)

\* An allocation that uses the tolerance of the invoice as well.
FifoAmountOver(left, remaining) == Min(left, remaining + EPS)

\* alloc = min(remaining, invoice.remaining_amount)
FifoAmount(left, remaining) == Min(left, remaining)

RpFifoDone(sr) == sr.idx > Len(sr.cands) \/ sr.left <= 0

\* One iteration of the FIFO loop (lines 111-117 and 142-148).
RpFifoStep(s) ==
    LET sr == sess[s]
        i == sr.cands[sr.idx]
        alloc == FifoAmount(sr.left, sr.obj[i].remaining)
        r == AllocateToInvoice(sr, i, alloc)
    IN
    /\ sr.pc = "rp_fifo"
    /\ ~RpFifoDone(sr)
    /\ CanLock(s, {i})
    /\ rowlock' = Locked(s, {i})
    /\ sess' = [sess EXCEPT ![s] =
          IF r.pc = "failed" THEN r
          ELSE [r EXCEPT !.left = @ - alloc, !.idx = @ + 1]]
    /\ UNCHANGED <<invoices, payments, allocations, returns, stock, today, last>>

RpManualDone(sr) == sr.idx > Len(sr.manual)

\* One iteration of the manual loop (lines 90-98).
RpManualStep(s) ==
    LET sr == sess[s]
        i == sr.manual[sr.idx][1]
        alloc == sr.manual[sr.idx][2]
        r == AllocateToInvoice(sr, i, alloc)
    IN
    /\ sr.pc = "rp_manual"
    /\ ~RpManualDone(sr)
    /\ IF alloc > sr.left
       THEN /\ sess' = [sess EXCEPT ![s] = Failed(sr, "over_payment")]
            /\ UNCHANGED rowlock
       ELSE /\ CanLock(s, {i} \cap Invoices)
            /\ rowlock' = Locked(s, {i} \cap Invoices)
            /\ sess' = [sess EXCEPT ![s] =
                  IF r.pc = "failed" THEN r
                  ELSE [r EXCEPT !.left = @ - alloc, !.idx = @ + 1]]
    /\ UNCHANGED <<invoices, payments, allocations, returns, stock, today, last>>

RpDone(sr) ==
    IF sr.pc = "rp_fifo" THEN RpFifoDone(sr)
    ELSE sr.pc = "rp_manual" /\ RpManualDone(sr)

\* self.db.commit() of record_payment (line 150).
RpCommit(s) ==
    LET sr == sess[s] IN
    /\ RpDone(sr)
    /\ invoices' = CommittedInvoices(sr)
    /\ payments' = payments \cup sr.payrow
    /\ allocations' = allocations \o sr.newAllocs
    /\ sess' = [sess EXCEPT ![s] = IdleSess]
    /\ rowlock' = Released(s)
    /\ last' = [op |-> "record", pid |-> PaymentId(sr), pre |-> invoices]
    /\ UNCHANGED <<returns, stock, today>>

\* ------------------------------------------------------------------ reverse_payment
RECURSIVE SelectAllocations(_, _)
SelectAllocations(q, pid) ==
    IF q = <<>> THEN <<>>
    ELSE (IF Head(q).payment = pid THEN <<Head(q)>> ELSE <<>>)
         \o SelectAllocations(Tail(q), pid)

AllocationInvoices(q) == { q[k].invoice : k \in 1 .. Len(q) }

\* The number of reversals committed so far.
Reversals == Cardinality({ p \in payments : p.reversals > 0 })

\* reverse_payment up to the loop: get_payment loads the payment with its
\* allocations and their invoices (joinedload), then the reversed marker is
\* looked for in the notes (lines 426-432).
ReversePayment(s) ==
    /\ sess[s].pc = "idle"
    /\ \E pid \in { p.id : p \in payments } \cup {0} :
          LET sr == [IdleSess EXCEPT !.op = "reverse", !.pid = pid]
              q == SelectAllocations(allocations, pid)
          IN
          /\ Reversals < MaxRev \/ \E p \in payments : p.id = pid /\ p.marked
          /\ sess' = [sess EXCEPT ![s] =
                IF ~\E p \in payments : p.id = pid THEN Failed(sr, "payment")
                ELSE IF \E p \in payments : p.id = pid /\ p.marked
                     THEN Failed(sr, "reversed")
                ELSE [WithLoadedAll(sr, AllocationInvoices(q)) EXCEPT
                        !.pc = "rv_loop", !.rvAllocs = q, !.idx = 1]]
          /\ last' = IF last.op = "record" /\ last.pid = pid THEN last ELSE NoLast
    /\ UNCHANGED <<invoices, payments, allocations, returns, stock, rowlock, today>>

\* A reversal that gives the money back and leaves the status alone.
ReverseAllocationKeepStatus(inv, amount) ==
    [inv EXCEPT !.paid = @ - amount, !.remaining = @ + amount]

\* The update of one invoice inside the reversal loop (lines 442-450).
ReverseAllocation(inv, amount) ==
    LET paid == inv.paid - amount
        remaining == inv.remaining + amount
    IN [inv EXCEPT !.paid = paid, !.remaining = remaining,
                   !.status = IF paid = 0 THEN "pending"
                              ELSE IF inv.status = "paid" /\ remaining > EPS
                                   THEN "pending" ELSE @]

RvDone(sr) == sr.pc = "rv_loop" /\ sr.idx > Len(sr.rvAllocs)

\* One iteration of the reversal loop (lines 435-452).
RvStep(s) ==
    LET sr == sess[s]
        a == sr.rvAllocs[sr.idx]
        sl == WithLoaded(sr, a.invoice)
    IN
    /\ sr.pc = "rv_loop"
    /\ ~RvDone(sr)
    /\ CanLock(s, {a.invoice})
    /\ rowlock' = Locked(s, {a.invoice})
    /\ sess' = [sess EXCEPT ![s] =
          [sl EXCEPT !.obj[a.invoice] = ReverseAllocation(sl.obj[a.invoice], a.amount),
                     !.idx = @ + 1]]
    /\ UNCHANGED <<invoices, payments, allocations, returns, stock, today, last>>

\* A reversal that also voids the amount of the payment.
MarkReversedVoided(p) ==
    [p EXCEPT !.marked = TRUE, !.reversals = @ + 1, !.amount = 0]

\* The payment marked as reversed: the marker is prepended to the notes.
MarkReversed(p) == [p EXCEPT !.marked = TRUE, !.reversals = @ + 1]

\* Marking the payment and self.db.commit() (lines 454-458).
RvCommit(s) ==
    LET sr == sess[s] IN
    /\ RvDone(sr)
    /\ invoices' = CommittedInvoices(sr)
    /\ payments' = { IF p.id = sr.pid THEN MarkReversed(p) ELSE p : p \in payments }
    /\ sess' = [sess EXCEPT ![s] = IdleSess]
    /\ rowlock' = Released(s)
    /\ last' = IF last.op = "record" /\ last.pid = sr.pid
               THEN [last EXCEPT !.op = "reversed"] ELSE NoLast
    /\ UNCHANGED <<allocations, returns, stock, today>>

\* ------------------------------------------------------------------ create_return
\* refund_amount: Optional[float] = None
NoRefund == -1

\* What a caller may send as return_items and refund_amount.
ReturnItemLists ==
    { << [line |-> l, qty |-> q, restore |-> r] >> :
        l \in Invoices, q \in {1, 3}, r \in {TRUE} }
RefundOverrides == {NoRefund, InvoiceTotal(2) + 1}

\* _generate_return_number: RET-<today>-<count of today's returns + 1>.
GenerateReturnNumber ==
    [day |-> today,
     seq |-> Cardinality({ r \in returns : r.number.day = today }) + 1]

RECURSIVE SumReturned(_, _)
SumReturned(items, line) ==
    IF items = <<>> THEN 0
    ELSE (IF Head(items).line = line THEN Head(items).qty ELSE 0)
         + SumReturned(Tail(items), line)

RECURSIVE SumAlreadyReturned(_, _, _)
SumAlreadyReturned(R, i, line) ==
    IF R = {} THEN 0
    ELSE LET r == CHOOSE x \in R : TRUE
         IN (IF r.invoice = i THEN SumReturned(r.items, line) ELSE 0)
            + SumAlreadyReturned(R \ {r}, i, line)

\* The quantity of a line the committed returns of invoice i already took back.
AlreadyReturned(i, line) == SumAlreadyReturned(returns, i, line)

\* An eligibility check that does not look at the status.
InvoiceEligibleAnyStatus(i) == i \in Invoices /\ InvoiceItems(i) # {}

\* _validate_invoice_eligibility
InvoiceEligible(i) ==
    /\ i \in Invoices
    /\ invoices[i].status \in {"paid", "pending"}
    /\ InvoiceItems(i) # {}

\* _validate_return_items: every item names a line of the invoice and asks for no
\* more than what is still available of it.
ValidReturnItems(i, items) ==
    \A k \in 1 .. Len(items) :
        /\ items[k].line \in InvoiceItems(i)
        /\ ~(items[k].qty > ItemQuantity(items[k].line) - AlreadyReturned(i, items[k].line))

\* _calculate_refund_amount
RECURSIVE CalculateRefundAmount(_)
CalculateRefundAmount(items) ==
    IF items = <<>> THEN 0
    ELSE Head(items).qty * ItemPrice(Head(items).line)
         + CalculateRefundAmount(Tail(items))

\* _is_full_return
IsFullReturn(i, items) ==
    \A line \in InvoiceItems(i) :
        ~(AlreadyReturned(i, line) + SumReturned(items, line) < ItemQuantity(line))

\* An inventory hook that puts every returned unit back on the shelf, flagged or
\* not.
RestoreInventoryAll(st, items) ==
    [p \in DOMAIN st |-> st[p] + SumReturned(items, p)]

\* _restore_inventory
RECURSIVE RestoreInventory(_, _)
RestoreInventory(st, items) ==
    IF items = <<>> THEN st
    ELSE RestoreInventory(
           IF Head(items).restore
           THEN [st EXCEPT ![Head(items).line] = @ + Head(items).qty] ELSE st,
           Tail(items))

NextReturnId ==
    IF returns = {} THEN 1
    ELSE 1 + (CHOOSE m \in { r.id : r \in returns } : \A r \in returns : r.id <= m)

\* A create_return that applies the credit for the returned goods at once.
InvoiceCreditedAtReturn(inv, refund) == [inv EXCEPT !.remaining = @ - refund]

\* The invoice as create_return leaves it: the service sets none of its fields
\* (lines 126-162).
InvoiceAfterReturn(inv, refund) == inv

\* create_return: the return and its items are validated, inserted and committed;
\* the invoice itself is not written.
CreateReturnWith(s, Ids, Items, Refunds) ==
    /\ sess[s].pc = "idle"
    /\ Cardinality(returns) < MaxRet
    /\ \E i \in Ids, items \in Items, refund \in Refunds :
          LET sr == [IdleSess EXCEPT !.op = "create_return", !.ids = {i}]
              refund_amount == IF refund = NoRefund
                               THEN CalculateRefundAmount(items) ELSE refund
          IN
          IF ~InvoiceEligible(i)
          THEN /\ sess' = [sess EXCEPT ![s] = Failed(sr, "not_eligible")]
               /\ UNCHANGED <<returns, stock, invoices>>
          ELSE IF ~ValidReturnItems(i, items)
          THEN /\ sess' = [sess EXCEPT ![s] = Failed(sr, "return_items")]
               /\ UNCHANGED <<returns, stock, invoices>>
          ELSE /\ returns' = returns \cup
                     {[id |-> NextReturnId, number |-> GenerateReturnNumber,
                       invoice |-> i, refund |-> refund_amount,
                       full |-> IsFullReturn(i, items), status |-> "pending_refund",
                       payment |-> 0, items |-> items]}
               /\ stock' = RestoreInventory(stock, items)
               /\ invoices' = [invoices EXCEPT
                                 ![i] = InvoiceAfterReturn(@, refund_amount)]
               /\ sess' = [sess EXCEPT ![s] = IdleSess]
    /\ last' = NoLast
    /\ UNCHANGED <<payments, allocations, rowlock, today>>

\* ------------------------------------------------------------------ update_return_status
ReturnStatuses == {"pending_refund", "refunded"}

\* What a caller may send as new_status and whether it sends a payment_method.
StatusRequests ==
    { <<"refunded", TRUE>>, <<"refunded", FALSE>>, <<"pending_refund", TRUE>>,
      <<"unknown", TRUE>> }

\* A service that lets every transition through.
TransitionNeverBlocked(old, new) == FALSE

\* The transition update_return_status refuses (lines 310-311).
TransitionBlocked(old, new) == old = "refunded" /\ new = "pending_refund"

\* The transition that moves money (line 269).
ToRefunded(old, new) == old = "pending_refund" /\ new = "refunded"

\* update_return_status up to the transition: the status is validated and the
\* return is loaded together with its invoice (joinedload), without a lock.
UpdateReturnStatusWith(s, Requests) ==
    /\ sess[s].pc = "idle"
    /\ \E rid \in { r.id : r \in returns } \cup {0}, req \in Requests :
          LET st == req[1]
              m == req[2]
              sr == [IdleSess EXCEPT !.op = "update_return", !.newStatus = st,
                                     !.method = m]
              R == { r \in returns : r.id = rid }
          IN sess' = [sess EXCEPT ![s] =
                IF st \notin ReturnStatuses THEN Failed(sr, "status")
                ELSE IF R = {} THEN Failed(sr, "return")
                ELSE LET r == CHOOSE x \in R : TRUE
                         sl == [WithLoaded(sr, r.invoice) EXCEPT !.ret = R]
                     IN IF r.status = st THEN [sl EXCEPT !.pc = "returned"]
                        ELSE IF ToRefunded(r.status, st) /\ ~m
                             THEN Failed(sl, "method")
                        ELSE IF ~ToRefunded(r.status, st) /\ TransitionBlocked(r.status, st)
                             THEN Failed(sl, "blocked")
                        ELSE [sl EXCEPT !.pc = "urs_apply"]]
    /\ last' = NoLast
    /\ UNCHANGED <<invoices, payments, allocations, returns, stock, rowlock, today>>

\* A settlement that pays out whatever balance the credit leaves, owed or owing.
SettlementIgnoringSign(remaining) == Abs(remaining)

\* settlement_amount = abs(min(0, invoice.remaining_amount))
SettlementAmount(remaining) == Abs(Min(0, remaining))

\* A settlement that clears the balance and is not tracked as cash out.
AllocateSettlementUntracked(inv, settlement) ==
    LET r == inv.remaining + settlement IN
    [inv EXCEPT !.remaining = IF Abs(r) <= EPS THEN 0 ELSE r]

\* _allocate_settlement_to_invoice
AllocateSettlement(inv, settlement) ==
    LET r == inv.remaining + settlement IN
    [inv EXCEPT !.refunded = @ + settlement,
                !.remaining = IF Abs(r) <= EPS THEN 0 ELSE r]

\* Step 5 of the transition to refunded: the status of the invoice.
SettledStatus(inv) ==
    IF inv.remaining <= EPS THEN [inv EXCEPT !.status = "paid", !.remaining = 0]
    ELSE IF inv.remaining > 0 THEN [inv EXCEPT !.status = "pending"]
    ELSE inv

\* A transition that applies the credit and neither settles nor cleans up.
ApplyRefundCreditOnly(inv, refund) == [inv EXCEPT !.remaining = @ - refund]

\* The invoice after the transition pending_refund -> refunded (lines 273-307).
ApplyRefund(inv, refund) ==
    LET credited == [inv EXCEPT !.remaining = @ - refund]
        settlement == SettlementAmount(credited.remaining)
    IN SettledStatus(IF settlement > 0 THEN AllocateSettlement(credited, settlement)
                     ELSE credited)

\* A refund payment numbered by its own row id instead of the return.
RefundNumberFresh(r) == [kind |-> "REFUND", day |-> r.number.day, seq |-> NextPaymentId]

\* _create_refund_payment: the negative payment REFUND-<return number>.
RefundNumber(r) == [kind |-> "REFUND", day |-> r.number.day, seq |-> r.number.seq]
\* A refund payment of the whole value of the returned goods.
RefundPaymentGross(r, inv, settlement) ==
    [id |-> NextPaymentId, number |-> RefundNumber(r), customer |-> inv.customer,
     amount |-> -r.refund, marked |-> FALSE, reversals |-> 0]

RefundPayment(r, inv, settlement) ==
    [id |-> NextPaymentId, number |-> RefundNumber(r), customer |-> inv.customer,
     amount |-> -settlement, marked |-> FALSE, reversals |-> 0]

\* The transition and self.db.commit(): on pending_refund -> refunded the
\* settlement payment is inserted when the shop owes the customer and the invoice
\* is updated; the return takes the new status.  The INSERT fails on a committed payment of the same number; the
\* UPDATE of the invoice needs its row lock.
UrsApply(s) ==
    LET sr == sess[s]
        r == CHOOSE x \in sr.ret : TRUE
        i == r.invoice
        inv == sr.obj[i]
        money == ToRefunded(r.status, sr.newStatus)
        settlement == SettlementAmount(inv.remaining - r.refund)
        pay == money /\ settlement > 0 /\ r.payment = 0
        row == RefundPayment(r, inv, settlement)
        done == IF money THEN Flushed([sr EXCEPT !.obj[i] = ApplyRefund(inv, r.refund)])
                ELSE sr
    IN
    /\ sr.pc = "urs_apply"
    /\ CanLock(s, {i})
    /\ pay => \A p \in PendingPayments(s) : p.number # row.number
    /\ IF pay /\ \E p \in payments : p.number = row.number
       THEN /\ sess' = [sess EXCEPT ![s] = Failed(sr, "integrity")]
            /\ UNCHANGED <<invoices, payments, allocations, returns, rowlock>>
       ELSE /\ invoices' = CommittedInvoices(done)
            /\ payments' = IF pay THEN payments \cup {row} ELSE payments
            /\ allocations' =
                 IF pay THEN Append(allocations, [payment |-> row.id, invoice |-> i,
                                                  amount |-> -settlement])
                 ELSE allocations
            /\ returns' = { IF x.id = r.id
                            THEN [x EXCEPT !.status = sr.newStatus,
                                           !.payment = IF pay THEN row.id ELSE @]
                            ELSE x : x \in returns }
            /\ sess' = [sess EXCEPT ![s] = IdleSess]
            /\ rowlock' = Released(s)
    /\ UNCHANGED <<stock, today, last>>

\* ------------------------------------------------------------------ get_customer_debt_summary
\* overdue_threshold = now - timedelta(days=30)
OverdueDays == 30

\* Who a caller may ask the summary for.
DebtCustomers == Customers \cup {NoCustomer}

\* The sum of f over the invoices of S.
RECURSIVE SumOver(_, _)
SumOver(S, f) ==
    IF S = {} THEN 0
    ELSE LET i == CHOOSE j \in S : TRUE IN f[i] + SumOver(S \ {i}, f)

\* The invoices with remaining debt (lines 261-266).
DebtInvoices(cust) ==
    { i \in Invoices : /\ invoices[i].customer = cust
                       /\ invoices[i].status \in {"pending", "paid"}
                       /\ invoices[i].remaining > 0
                       /\ invoices[i].exported }

\* The invoices that count as revenue (lines 270-275 and 284-288).
RevenueInvoices(cust) ==
    { i \in Invoices : /\ invoices[i].customer = cust
                       /\ invoices[i].status \in {"pending", "paid"}
                       /\ invoices[i].exported }

\* Invoice.total_returned_amount: the refund_amount of its refunded returns.
RECURSIVE SumRefunds(_, _)
SumRefunds(R, i) ==
    IF R = {} THEN 0
    ELSE LET r == CHOOSE x \in R : TRUE
         IN (IF r.invoice = i /\ r.status = "refunded" THEN r.refund ELSE 0)
            + SumRefunds(R \ {r}, i)
TotalReturnedAmount(i) == SumRefunds(returns, i)

\* The invoices older than the threshold (lines 307-322).
OverdueInvoices(D) == { i \in D : invoices[i].created < today - OverdueDays }

\* The dictionary get_customer_debt_summary returns (lines 299-338).
DebtSummary(cust) ==
    LET D == DebtInvoices(cust)
        V == RevenueInvoices(cust)
        O == OverdueInvoices(D)
        remaining == [i \in Invoices |-> invoices[i].remaining]
        revenue == SumOver(V, [i \in Invoices |-> invoices[i].total])
        refunded == SumOver(V, [i \in Invoices |-> TotalReturnedAmount(i)])
    IN [total_debt |-> SumOver(D, remaining),
        total_revenue |-> revenue,
        total_refunded |-> refunded,
        total_net_revenue |-> revenue - refunded,
        total_invoices |-> Cardinality(D),
        unpaid_invoices |-> Cardinality({ i \in D : invoices[i].paid = 0 }),
        partially_paid_invoices |->
            Cardinality({ i \in D : invoices[i].paid > 0
                                     /\ invoices[i].remaining > EPS }),
        overdue_debt |-> SumOver(O, remaining),
        overdue_invoices |-> Cardinality(O),
        invoices |-> SortByCreated(D)]

\* A summary that writes the status it derives from remaining_amount back to the
\* invoices of the customer.
InvoicesRestatedBySummary(cust) ==
    [i \in Invoices |->
        IF invoices[i].customer = cust
        THEN [invoices[i] EXCEPT
                !.status = IF invoices[i].remaining <= EPS THEN "paid" ELSE "pending"]
        ELSE invoices[i]]

\* The invoices as get_customer_debt_summary leaves them: the service only
\* queries, it sets no field and does not commit.
InvoicesAfterSummary(cust) == invoices

\* get_customer_debt_summary: the customer is looked up, the invoices are queried
\* and the totals are computed from them.
GetCustomerDebtSummary(s, Custs) ==
    /\ sess[s].pc = "idle"
    /\ \E cust \in Custs :
          LET sr == [IdleSess EXCEPT !.op = "debt_summary", !.cust = cust] IN
          IF cust \notin Customers
          THEN /\ sess' = [sess EXCEPT ![s] = Failed(sr, "customer")]
               /\ UNCHANGED invoices
          ELSE /\ sess' = [sess EXCEPT ![s] =
                     [WithLoadedAll(sr, RevenueInvoices(cust)) EXCEPT
                        !.pc = "returned", !.summary = DebtSummary(cust)]]
               /\ invoices' = InvoicesAfterSummary(cust)
    /\ last' = NoLast
    /\ UNCHANGED <<payments, allocations, returns, stock, rowlock, today>>

\* ------------------------------------------------------------------ specifications
\* One request at a time, through a single session slot.
Next ==
    \/ \E s \in {1} :
          \/ RecordPaymentWith(s, Payers, PayAmounts, IdLists, ManualMaps, PlainNotes)
          \/ RpFlush(s)
          \/ RpQuery(s)
          \/ RpFifoStep(s)
          \/ RpManualStep(s)
          \/ RpCommit(s)
          \/ ReversePayment(s)
          \/ RvStep(s)
          \/ RvCommit(s)
          \/ CreateReturnWith(s, InvoiceIds, ReturnItemLists, RefundOverrides)
          \/ UpdateReturnStatusWith(s, StatusRequests)
          \/ UrsApply(s)
          \/ CloseSession(s)

Spec == Init /\ [][Next]_vars

\* Two requests at a time, both record_payment calls of customer 1 against two
\* exported pending invoices, while the calendar day may change.
ConcInvoices ==
    { f \in InitInvoices :
        f[2].customer = 1 /\ f[2].status = "pending" /\ f[2].exported }
ConcAmounts == {InvoiceTotal(1), InvoiceTotal(1) + 3}
ConcLists == {{}, Invoices}
ConcMaps == { <<>>, << <<2, 2>>, <<1, 4>> >> }

InitConc == Init /\ invoices \in ConcInvoices

NextConc ==
    \/ Tick
    \/ \E s \in Sessions :
          \/ RecordPaymentWith(s, {1}, ConcAmounts, ConcLists, ConcMaps, PlainNotes)
          \/ RpFlush(s)
          \/ RpQuery(s)
          \/ RpFifoStep(s)
          \/ RpManualStep(s)
          \/ RpCommit(s)
          \/ CloseSession(s)

SpecConc == InitConc /\ [][NextConc]_vars

\* One request at a time, payments of customer 1 with any notes and their
\* reversals.
NotesAmounts == {InvoiceTotal(1)}
NotesMaps == { <<>>, << <<1, 2>> >> }

NextNotes ==
    \E s \in {1} :
        \/ RecordPaymentWith(s, {1}, NotesAmounts, {{}}, NotesMaps, AnyNotes)
        \/ RpFlush(s)
        \/ RpQuery(s)
        \/ RpFifoStep(s)
        \/ RpManualStep(s)
        \/ RpCommit(s)
        \/ ReversePayment(s)
        \/ RvStep(s)
        \/ RvCommit(s)
        \/ CloseSession(s)

SpecNotes == Init /\ [][NextNotes]_vars

\* One request at a time, returns only: a request may name the same invoice line
\* in one item or in two.
ReturnItem(l, q) == [line |-> l, qty |-> q, restore |-> TRUE]
RepeatedItemLists ==
    { << ReturnItem(l, q) >> : l \in Invoices, q \in {1, 2} }
      \cup { << ReturnItem(l, q), ReturnItem(l, p) >> : l \in Invoices, q \in {1, 2}, p \in {1, 2} }

NextReturns ==
    \E s \in {1} :
        \/ CreateReturnWith(s, InvoiceIds, RepeatedItemLists, {NoRefund})
        \/ UpdateReturnStatusWith(s, StatusRequests)
        \/ UrsApply(s)
        \/ CloseSession(s)

SpecReturns == Init /\ [][NextReturns]_vars

\* One request at a time, returns only: a request names a line once or twice and
\* flags each item for the inventory or not.
StockItem(l, q, r) == [line |-> l, qty |-> q, restore |-> r]
StockItemLists ==
    { << StockItem(l, q, r) >> : l \in Invoices, q \in {1, 2}, r \in BOOLEAN }
      \cup { << StockItem(l, 1, r), StockItem(l, 1, t) >> :
                l \in Invoices, r \in BOOLEAN, t \in BOOLEAN }

NextStock ==
    \E s \in {1} :
        \/ CreateReturnWith(s, InvoiceIds, StockItemLists, {NoRefund})
        \/ UpdateReturnStatusWith(s, StatusRequests)
        \/ UrsApply(s)
        \/ CloseSession(s)

SpecStock == Init /\ [][NextStock]_vars

\* Two requests at a time: auto-FIFO payments of customer 1, a return of one unit
\* of invoice 1 and its transition to refunded.
SettleItemLists == { << ReturnItem(1, 1) >> }
SettleRequests == { <<"refunded", TRUE>> }

NextSettle ==
    \E s \in Sessions :
        \/ RecordPaymentWith(s, {1}, {InvoiceTotal(1)}, {{}}, {<<>>}, PlainNotes)
        \/ RpFlush(s)
        \/ RpQuery(s)
        \/ RpFifoStep(s)
        \/ RpCommit(s)
        \/ CreateReturnWith(s, {1}, SettleItemLists, {NoRefund})
        \/ UpdateReturnStatusWith(s, SettleRequests)
        \/ UrsApply(s)
        \/ CloseSession(s)

SpecSettle == InitConc /\ [][NextSettle]_vars

\* One request at a time: payments of customer 1, their reversals, a return and
\* its transition, and debt summaries of any customer.
DebtAmounts == {EPS, InvoiceTotal(1)}
DebtMaps == { <<>>, << <<2, 2>> >> }

NextDebt ==
    \E s \in {1} :
        \/ RecordPaymentWith(s, {1}, DebtAmounts, {{}}, DebtMaps, PlainNotes)
        \/ RpFlush(s)
        \/ RpQuery(s)
        \/ RpFifoStep(s)
        \/ RpManualStep(s)
        \/ RpCommit(s)
        \/ ReversePayment(s)
        \/ RvStep(s)
        \/ RvCommit(s)
        \/ CreateReturnWith(s, Invoices, ReturnItemLists, {NoRefund})
        \/ UpdateReturnStatusWith(s, SettleRequests)
        \/ UrsApply(s)
        \/ GetCustomerDebtSummary(s, DebtCustomers)
        \/ CloseSession(s)

SpecDebt == Init /\ [][NextDebt]_vars

\* Two requests at a time, returns of invoice 1 and their transitions only.  The
\* ledger starts after record_payment has committed nothing, half or all of
\* invoice 1 for customer 1 in one payment.
RefundPaid == {0, 2, 4}
RefundItemLists == { << ReturnItem(1, q) >> : q \in {1, 2} }

\* What one FIFO payment of amount a gives invoice i: invoice 1 first, the rest
\* to invoice 2.
PaidAmount(i, a) ==
    IF i = 1 THEN FifoAmount(a, InvoiceTotal(1))
    ELSE a - FifoAmount(a, InvoiceTotal(1))

PaidInvoices(a) ==
    [i \in Invoices |->
        IF PaidAmount(i, a) > 0
        THEN ApplyAllocation(NewInvoice(1, InvoiceTotal(i), "pending", TRUE, i),
                             PaidAmount(i, a))
        ELSE NewInvoice(1, InvoiceTotal(i), "pending", TRUE, i)]

RECURSIVE PaidAllocations(_, _)
PaidAllocations(q, a) ==
    IF q = <<>> THEN <<>>
    ELSE (IF PaidAmount(Head(q), a) > 0
          THEN <<[payment |-> 1, invoice |-> Head(q), amount |-> PaidAmount(Head(q), a)]>>
          ELSE <<>>) \o PaidAllocations(Tail(q), a)

\* The ledger after record_payment has committed one payment of an amount of
\* Amounts for customer 1, or none for the amount 0.
InitPaid(Amounts) ==
    \E a \in Amounts :
        /\ invoices = PaidInvoices(a)
        /\ payments = IF a = 0 THEN {}
                      ELSE {[id |-> 1, number |-> PayNumber(1, 1), customer |-> 1,
                             amount |-> a, marked |-> FALSE, reversals |-> 0]}
        /\ allocations = PaidAllocations(<<1, 2>>, a)
        /\ returns = {}
        /\ stock = [i \in Invoices |-> 0]
        /\ sess = [s \in Sessions |-> IdleSess]
        /\ rowlock = [i \in Invoices |-> 0]
        /\ today = 1
        /\ last = NoLast

InitRefund == InitPaid(RefundPaid)

NextRefund ==
    \E s \in Sessions :
        \/ CreateReturnWith(s, {1}, RefundItemLists, {NoRefund})
        \/ UpdateReturnStatusWith(s, StatusRequests)
        \/ UrsApply(s)
        \/ CloseSession(s)

SpecRefund == InitRefund /\ [][NextRefund]_vars

\* Two requests at a time, reversals only, of a payment that touched one invoice
\* or both.
ReversePaid == {2, 3, 4, 5, 7, 10}

InitReverse == InitPaid(ReversePaid)

NextReverse ==
    \E s \in Sessions :
        \/ ReversePayment(s)
        \/ RvStep(s)
        \/ RvCommit(s)
        \/ CloseSession(s)

SpecReverse == InitReverse /\ [][NextReverse]_vars

\* ------------------------------------------------------------------ claims
\* The committed allocations of invoice i that satisfy a condition on the
\* allocation and the payment it belongs to.
RECURSIVE SumAllocations(_, _, _)
SumAllocations(q, i, Live) ==
    IF q = <<>> THEN 0
    ELSE (IF Head(q).invoice = i /\ Live[Head(q).payment] THEN Head(q).amount ELSE 0)
         + SumAllocations(Tail(q), i, Live)

PaymentIds == { p.id : p \in payments }
AllPayments == [id \in PaymentIds |-> TRUE]
NotReversed == [id \in PaymentIds |-> \E p \in payments : p.id = id /\ ~p.marked]

RECURSIVE PositiveOnly(_)
PositiveOnly(q) ==
    IF q = <<>> THEN <<>>
    ELSE (IF Head(q).amount > 0 THEN <<Head(q)>> ELSE <<>>) \o PositiveOnly(Tail(q))

\* C1: every committed invoice satisfies remaining_amount == total - paid_amount
\* + refunded_amount, within the tolerance 0.01.
C1_RemainingIdentity ==
    \A i \in Invoices :
        Abs(invoices[i].remaining
            - (invoices[i].total - invoices[i].paid + invoices[i].refunded)) <= EPS

\* C2: every committed invoice that is not cancelled has status paid if and only
\* if its remaining_amount is at most 0.01.
C2_PaidIffSettled ==
    \A i \in Invoices :
        invoices[i].status # "cancelled"
            => (invoices[i].status = "paid" <=> invoices[i].remaining <= EPS)

\* C3: for every invoice, the positive allocations of the payments that are not
\* reversed add up to its paid_amount.
C3_AllocationsMatchPaid ==
    \A i \in Invoices :
        SumAllocations(PositiveOnly(allocations), i, NotReversed) = invoices[i].paid

\* C4: the allocations committed against an invoice by the two record_payment
\* calls never add up to more than what remained of it before them (its total:
\* both invoices start unpaid), and paid_amount never exceeds total.
C4_NoDoubleSpend ==
    \A i \in Invoices :
        /\ SumAllocations(allocations, i, AllPayments) <= InvoiceTotal(i)
        /\ invoices[i].paid <= invoices[i].total

\* C5: a record_payment that fails, whatever it had allocated before, changes no
\* committed payment, allocation or invoice from its first step to the close of
\* its session, and nothing of it is in the committed tables while it is failed.
C5_StepKeepsTables(s) ==
    /\ sess'[s] # sess[s] /\ sess'[s].op = "record"
         => UNCHANGED <<invoices, payments, allocations>>
    /\ sess'[s] # sess[s] /\ sess[s].op = "record" /\ sess[s].pc = "failed"
         => /\ UNCHANGED <<invoices, payments, allocations>>
            /\ sess'[s] = IdleSess
            /\ \A i \in Invoices : rowlock'[i] # s
C5_NothingCommitted(s) ==
    sess[s].op = "record" /\ sess[s].pc = "failed"
        => /\ sess[s].payrow \cap payments = {}
           /\ \A p \in sess[s].payrow :
                SelectAllocations(allocations, p.id) = <<>>
C6_RoundTrip ==
    last.op = "reversed" =>
        \A i \in AllocationInvoices(SelectAllocations(allocations, last.pid)) :
            /\ invoices[i].paid = last.pre[i].paid
            /\ invoices[i].remaining = last.pre[i].remaining
            /\ invoices[i].status = last.pre[i].status

\* The amount the k-th candidate of a FIFO payment received, 0 when the loop ended
\* before it.
FifoAllocated(sr, k) == IF k <= Len(sr.newAllocs) THEN sr.newAllocs[k].amount ELSE 0
FifoAllocatedBefore(sr, k) ==
    SumSeq([j \in 1 .. k - 1 |-> FifoAllocated(sr, j)])
AutoFinished(sr) == sr.pc = "rp_fifo" /\ sr.mode = "auto" /\ RpFifoDone(sr)

\* C7: when the loop of an auto-FIFO payment has ended, the candidates are in
\* ascending order of creation and candidate k+1 has a non-zero allocation only if
\* candidate k is down to a remaining_amount of at most 0.01.
C7_FifoOrdering ==
    \A s \in Sessions :
        LET sr == sess[s] IN
        AutoFinished(sr) =>
            \A k \in 1 .. Len(sr.cands) - 1 :
                /\ invoices[sr.cands[k]].created <= invoices[sr.cands[k + 1]].created
                /\ FifoAllocated(sr, k + 1) # 0
                     => sr.obj[sr.cands[k]].remaining <= EPS

\* An auto-FIFO payment has paid off the older invoice and part of the newer one.
C7_Witness ==
    \E s \in Sessions :
        /\ AutoFinished(sess[s])
        /\ Len(sess[s].cands) = 2
        /\ FifoAllocated(sess[s], 2) # 0
        /\ sess[s].obj[sess[s].cands[2]].remaining > EPS

\* C8: when the loop of an auto-FIFO payment of amount A has ended, the i-th
\* candidate (oldest first) has received min(remaining_i, A minus the earlier
\* allocations), each allocation is on its candidate, and they add up to A.
C8_FifoAmounts ==
    \A s \in Sessions :
        LET sr == sess[s] IN
        AutoFinished(sr) =>
            /\ Len(sr.newAllocs) <= Len(sr.cands)
            /\ \A k \in 1 .. Len(sr.cands) :
                  /\ FifoAllocated(sr, k)
                       = Min(sr.candRem[k], sr.amount - FifoAllocatedBefore(sr, k))
                  /\ k <= Len(sr.newAllocs) => sr.newAllocs[k].invoice = sr.cands[k]
            /\ FifoAllocatedBefore(sr, Len(sr.cands) + 1) = sr.amount

\* An auto-FIFO payment of amount 7 over remaining amounts 4 and 6 has allocated 4
\* and 3 and left 3 on the newer invoice, still pending.
C8_Witness ==
    \E s \in Sessions :
        LET sr == sess[s] IN
        /\ AutoFinished(sr)
        /\ sr.candRem = <<InvoiceTotal(1), InvoiceTotal(2)>>
        /\ sr.amount = InvoiceTotal(1) + 3
        /\ FifoAllocated(sr, 1) = InvoiceTotal(1)
        /\ FifoAllocated(sr, 2) = 3
        /\ sr.obj[2].remaining = 3 /\ sr.obj[2].status = "pending"

\* C9: an auto-FIFO payment whose amount exceeds the remaining amounts of its
\* candidates never enters the allocation loop; when it is rejected it has added
\* no allocation and changed no invoice, its payment is not committed, and the
\* close of its session leaves the committed tables as they were.
C9_Rejected(s) ==
    LET sr == sess[s] IN
    /\ sr.pc = "rp_fifo" /\ sr.mode = "auto" => sr.amount <= SumSeq(sr.candRem)
    /\ sr.why = "overpayment"
         => /\ sr.pc = "failed"
            /\ sr.newAllocs = <<>>
            /\ \A i \in Invoices :
                  /\ sr.wcols[i] = {} /\ rowlock[i] # s
                  /\ i \in sr.loaded => sr.obj[i] = invoices[i]
            /\ sr.payrow \cap payments = {}
C9_Closed(s) ==
    sess[s].why = "overpayment" /\ sess'[s] # sess[s]
        => UNCHANGED <<invoices, payments, allocations>> /\ sess'[s] = IdleSess
C9_OverpaymentRejected ==
    /\ [](\A s \in Sessions : C9_Rejected(s))
    /\ [][\A s \in Sessions : C9_Closed(s)]_vars

\* An auto-FIFO payment of more than the debt of the customer has been rejected
\* after its payment row was flushed and its candidates were loaded.
C9_Witness ==
    \E s \in Sessions :
        /\ sess[s].why = "overpayment"
        /\ sess[s].payrow # {}
        /\ Cardinality(sess[s].loaded) = 2
        /\ sess[s].amount > invoices[1].remaining + invoices[2].remaining

\* C10: a manual record_payment whose allocations add up to more than its amount
\* is rejected before the service runs: its session has inserted no payment, added
\* no allocation, loaded and written no invoice.
C10_ManualSumRejected ==
    \A s \in Sessions :
        LET sr == sess[s] IN
        sr.op = "record" /\ sr.manual # <<>>
          /\ SumSeq(ManualValues(sr.manual)) > sr.amount
            => /\ sr.pc = "failed"
               /\ sr.payrow = {} /\ sr.newAllocs = <<>> /\ sr.loaded = {}
               /\ \A i \in Invoices : sr.wcols[i] = {} /\ rowlock[i] # s

\* A manual payment of 7 allocating 4 and 4 has been rejected by the schema.
C10_Witness ==
    \E s \in Sessions :
        /\ sess[s].why = "schema_allocations"
        /\ sess[s].manual = << <<1, 4>>, <<2, 4>> >>
        /\ sess[s].amount = InvoiceTotal(1) + 3

\* What a SELECT of invoice i inside the transaction of session s returns: its own
\* flushed writes over the committed row.
ReadUnderLock(s, i) ==
    [c \in DOMAIN invoices[i] |->
        IF c \in sess[s].wcols[i] THEN sess[s].base[i][c] ELSE invoices[i][c]]

\* C11: a step of _allocate_to_invoice that adds a positive allocation does so only
\* when the amount is at most the remaining_amount a read under the row lock
\* returns, plus 0.01; a step that fails on this bound adds no allocation, changes
\* no invoice object and writes no column.
C11_Applied(s) ==
    LET n == Len(sess[s].newAllocs)
        a == sess'[s].newAllocs[n + 1]
    IN sess'[s].op = "record" /\ Len(sess'[s].newAllocs) = n + 1 /\ a.amount > 0
         => a.amount <= ReadUnderLock(s, a.invoice).remaining + EPS
C11_Refused(s) ==
    sess'[s].why = "over_invoice" /\ sess[s].why # "over_invoice"
        => /\ sess'[s].newAllocs = sess[s].newAllocs
           /\ sess'[s].wcols = sess[s].wcols
           /\ \A i \in sess[s].loaded : sess'[s].obj[i] = sess[s].obj[i]
           /\ \A i \in sess'[s].loaded \ sess[s].loaded : sess'[s].obj[i] = invoices[i]
           /\ UNCHANGED <<invoices, payments, allocations>>
C11_AllocationBound ==
    [][\A s \in Sessions : C11_Applied(s) /\ C11_Refused(s)]_vars

\* The committed payment a reverse_payment request names.
ReversedPayment(sr) == CHOOSE p \in payments : p.id = sr.pid

\* C12: a reverse_payment request is rejected as already reversed only when a
\* reverse_payment of that payment has committed before, whatever the notes of
\* the payment say, and it enters the reversal loop only when none has; a
\* rejected request has loaded and written nothing and its close changes no
\* committed table.
C12_Rejected(s) ==
    LET sr == sess[s] IN
    sr.op = "reverse" /\ sr.pc \in {"failed", "rv_loop"} /\ sr.why # "payment"
        => /\ sr.why = "reversed" <=> ReversedPayment(sr).reversals > 0
           /\ sr.why = "reversed"
                => sr.loaded = {} /\ \A i \in Invoices : sr.wcols[i] = {} /\ rowlock[i] # s
C12_Closed(s) ==
    sess[s].why = "reversed" /\ sess'[s] # sess[s]
        => UNCHANGED <<invoices, payments, allocations>> /\ sess'[s] = IdleSess
C12_ReversedOnce ==
    /\ [](\A s \in Sessions : C12_Rejected(s))
    /\ [][\A s \in Sessions : C12_Closed(s)]_vars

\* C13: a return is created pending_refund and has one of the two statuses; no
\* step takes a refunded return to another status or removes a return; a request
\* for refunded -> pending_refund is rejected having written nothing, and its
\* close leaves the returns, invoices, payments and allocations as they were.
C13_Statuses == \A r \in returns : r.status \in ReturnStatuses
C13_Step ==
    /\ \A r \in returns :
          \E x \in returns' :
              x.id = r.id /\ (r.status = "refunded" => x.status = "refunded")
    /\ \A x \in returns' :
          (\A r \in returns : r.id # x.id) => x.status = "pending_refund"
C13_Blocked(s) ==
    sess[s].why = "blocked"
        => /\ sess[s].pc = "failed" /\ sess[s].payrow = {}
           /\ \A r \in sess[s].ret : r \in returns /\ r.status = "refunded"
           /\ \A i \in Invoices : sess[s].wcols[i] = {} /\ rowlock[i] # s
C13_BlockedClosed(s) ==
    sess[s].why = "blocked" /\ sess'[s] # sess[s]
        => UNCHANGED <<invoices, payments, allocations, returns>>
C14_ReturnedWithinSold ==
    \A i \in Invoices : \A line \in InvoiceItems(i) :
        AlreadyReturned(i, line) <= ItemQuantity(line)

\* The step of session s commits a transition pending_refund -> refunded.
UrsRefunding(s) ==
    /\ sess[s].op = "update_return" /\ sess[s].pc = "urs_apply"
    /\ sess'[s].pc = "idle"
    /\ \A r \in sess[s].ret : ToRefunded(r.status, sess[s].newStatus)
UrsReturn(s) == CHOOSE r \in sess[s].ret : TRUE
UrsInvoice(s) == UrsReturn(s).invoice

\* C15 as stated: on pending_refund -> refunded the settlement (what
\* refunded_amount grows by) equals max(0, refund_amount - remaining_amount before
\* the call) and remaining_amount after the call equals max(0, remaining_amount
\* before - refund_amount).
C15_Exact(s) ==
    LET i == UrsInvoice(s)
        before == invoices[i].remaining
        refund == UrsReturn(s).refund
    IN UrsRefunding(s)
         => /\ invoices'[i].refunded - invoices[i].refunded = Max(0, refund - before)
            /\ invoices'[i].remaining = Max(0, before - refund)
C15_SettlementExact == [][\A s \in Sessions : C15_Exact(s)]_vars

\* C15 as the code has it: the settlement equals max(0, refund_amount -
\* remaining_amount before the call); remaining_amount after the call equals
\* remaining_amount before - refund_amount when that is more than 0.01, and 0
\* otherwise.
C15_Cleaned(s) ==
    LET i == UrsInvoice(s)
        before == invoices[i].remaining
        refund == UrsReturn(s).refund
    IN UrsRefunding(s)
         => /\ invoices'[i].refunded - invoices[i].refunded = Max(0, refund - before)
            /\ invoices'[i].remaining
                 = IF before - refund <= EPS THEN 0 ELSE before - refund
C15_SettlementCleaned == [][\A s \in Sessions : C15_Cleaned(s)]_vars

\* A return worth more than what was left of its invoice has been refunded: the
\* settlement is less than the refund and the invoice is settled.
C15_Witness ==
    \E r \in returns :
        /\ r.status = "refunded"
        /\ invoices[r.invoice].refunded > 0
        /\ invoices[r.invoice].refunded < r.refund
        /\ invoices[r.invoice].remaining = 0

\* C16: the step that commits a transition of a return to refunded leaves the
\* invoice of the return with remaining_amount >= -0.01.
C16_SettlementBound ==
    [][\A s \in Sessions :
          UrsRefunding(s) => invoices'[UrsInvoice(s)].remaining >= -EPS]_vars

\* A return has been refunded with a settlement paid out: the credit had taken
\* the invoice below zero, and it is back at zero.
C16_Witness ==
    \E r \in returns :
        /\ r.status = "refunded"
        /\ \E p \in payments : p.id = r.payment /\ p.amount < 0
        /\ invoices[r.invoice].remaining = 0

\* The cash a step pays out: the magnitudes of the negative payments it inserts.
RECURSIVE CashOut(_)
CashOut(P) ==
    IF P = {} THEN 0
    ELSE LET p == CHOOSE x \in P : TRUE
         IN (IF p.amount < 0 THEN -p.amount ELSE 0) + CashOut(P \ {p})

\* C17 as stated: on a transition of a return to refunded the settlement cash
\* paid out equals max(0, -(remaining_amount of the invoice before the credit
\* step)).
C17_CashBeforeCredit ==
    [][\A s \in Sessions :
          UrsRefunding(s)
            => CashOut(payments' \ payments)
                 = Max(0, -invoices[UrsInvoice(s)].remaining)]_vars

\* C17 as the code has it: the settlement cash paid out equals max(0,
\* -(remaining_amount after the credit step)), which is max(0, refund_amount -
\* remaining_amount before the credit step).
C17_CashAfterCredit ==
    [][\A s \in Sessions :
          UrsRefunding(s)
            => CashOut(payments' \ payments)
                 = Max(0, UrsReturn(s).refund - invoices[UrsInvoice(s)].remaining)]_vars

\* A settlement smaller than the refund of its return has been paid out.
C17_Witness ==
    \E r \in returns : \E p \in payments :
        /\ r.status = "refunded" /\ p.id = r.payment
        /\ p.number.kind = "REFUND"
        /\ 0 < -p.amount /\ -p.amount < r.refund

\* C18: the step that commits pending_refund -> refunded inserts a payment if and
\* only if the settlement is positive: then exactly one payment of minus the
\* settlement and one allocation of minus the settlement to the invoice of the
\* return are inserted, the return is linked to the payment and refunded_amount
\* grows by the settlement; otherwise no payment and no allocation is inserted,
\* the return stays without a payment and refunded_amount is unchanged.
C18_Step(s) ==
    LET r == UrsReturn(s)
        i == UrsInvoice(s)
        settlement == SettlementAmount(invoices[i].remaining - r.refund)
        after == CHOOSE x \in returns' : x.id = r.id
    IN UrsRefunding(s) =>
         IF settlement > 0
         THEN /\ \E p \in payments' \ payments :
                    /\ payments' = payments \cup {p}
                    /\ p.amount = -settlement
                    /\ allocations' = Append(allocations,
                                              [payment |-> p.id, invoice |-> i,
                                               amount |-> -settlement])
                    /\ after.payment = p.id
              /\ invoices'[i].refunded = invoices[i].refunded + settlement
         ELSE /\ UNCHANGED <<payments, allocations>>
              /\ after.payment = 0
              /\ invoices'[i].refunded = invoices[i].refunded
C18_SettlementPayment == [][\A s \in Sessions : C18_Step(s)]_vars

\* A return has been refunded as a pure credit: no payment is linked to it, no
\* settlement payment exists and the invoice still has a balance to pay.
C18_Witness ==
    \E r \in returns :
        /\ r.status = "refunded" /\ r.payment = 0
        /\ \A p \in payments : p.number.kind # "REFUND"
        /\ invoices[r.invoice].refunded = 0
        /\ invoices[r.invoice].remaining > 0

\* C19: a step of create_return, whether it commits the return or is rejected,
\* and the close of a rejected create_return leave every invoice, the payments
\* and the allocations as they were.
C19_Step(s) ==
    \/ sess'[s] # sess[s] /\ "create_return" \in {sess[s].op, sess'[s].op}
    \/ \E x \in returns' : \A r \in returns : r.id # x.id
C19_ReturnCreationFrame ==
    [][(\E s \in Sessions : C19_Step(s))
          => UNCHANGED <<invoices, payments, allocations>>]_vars

\* A return with a refund to pay has been created on an invoice that was partly
\* paid: the invoice still shows what the payment left, nothing was refunded.
C19_Witness ==
    \E r \in returns :
        /\ r.status = "pending_refund" /\ r.refund > 0
        /\ invoices[r.invoice].paid > 0 /\ invoices[r.invoice].refunded = 0
        /\ invoices[r.invoice].remaining
             = invoices[r.invoice].total - invoices[r.invoice].paid
        /\ Len(allocations) = Cardinality(payments)

\* Session s holds an object of invoice i that it read without the row lock: it
\* has the invoice loaded and does not hold the lock, and locks are released only
\* when the transaction ends.
ReadUnlocked(s, i) == i \in sess[s].loaded /\ rowlock[i] # s

\* C20: no step of record_payment, reverse_payment or update_return_status writes
\* a financial field of an invoice from an object the session read without the
\* row lock: neither the object of the session changes nor, when the step
\* commits, the committed invoice.
C20_Step(s) ==
    \A i \in Invoices :
        ReadUnlocked(s, i) /\ sess'[s] # sess[s]
            => IF sess'[s].pc = "idle" THEN invoices'[i] = invoices[i]
               ELSE sess'[s].obj[i] = sess[s].obj[i]
C20_WritesUnderLock == [][\A s \in Sessions : C20_Step(s)]_vars

\* Invoice 1 before the payment and the transition, and what the two serial
\* orders of an auto-FIFO payment of its total and the refund of one unit make
\* of it.
SettleStart == (CHOOSE f \in ConcInvoices : TRUE)[1]
SettleRefund == CalculateRefundAmount(<< ReturnItem(1, 1) >>)
PaidThenRefunded ==
    ApplyRefund(ApplyAllocation(SettleStart,
                                FifoAmount(InvoiceTotal(1), SettleStart.remaining)),
                SettleRefund)
RefundedThenPaid ==
    LET r == ApplyRefund(SettleStart, SettleRefund)
    IN ApplyAllocation(r, FifoAmount(InvoiceTotal(1), r.remaining))

\* C21: once one record_payment and the transition of the return of invoice 1 to
\* refunded have both committed, however their steps interleaved, invoice 1 has
\* the paid_amount, refunded_amount, remaining_amount and status of one of the
\* two serial orders.
C21_PaymentSettlementSerial ==
    (/\ Cardinality({ p \in payments : p.number.kind = "PAY" }) = 1
     /\ \E r \in returns : r.status = "refunded")
        => invoices[1] \in {PaidThenRefunded, RefundedThenPaid}

\* The invoices whose row lock session s holds.
HeldLocks(s) == { i \in Invoices : rowlock[i] = s }

\* C22: no session holds the row locks of two different invoices at once.
C22_OneLockAtATime == \A s \in Sessions : Cardinality(HeldLocks(s)) <= 1

\* The invoice a session is about to lock: the next one of its loop.
NextLock(s) ==
    LET sr == sess[s] IN
    IF sr.pc = "rp_fifo" /\ ~RpFifoDone(sr) THEN {sr.cands[sr.idx]}
    ELSE IF sr.pc = "rp_manual" /\ ~RpManualDone(sr)
              /\ ~(sr.manual[sr.idx][2] > sr.left)
         THEN {sr.manual[sr.idx][1]} \cap Invoices
    ELSE IF sr.pc = "rv_loop" /\ ~RvDone(sr) THEN {sr.rvAllocs[sr.idx].invoice}
    ELSE {}

\* Session s waits for a row lock that session t holds.
WaitsFor(s, t) == \E i \in NextLock(s) : rowlock[i] = t

C24_Step ==
    /\ \A p \in payments :
          \E x \in payments' :
              /\ x.id = p.id /\ x.number = p.number
              /\ x.customer = p.customer /\ x.amount = p.amount
    /\ Len(allocations') >= Len(allocations)
    /\ \A k \in 1 .. Len(allocations) : allocations'[k] = allocations[k]
C25_Step(s) ==
    sess'[s] # sess[s] /\ "debt_summary" \in {sess[s].op, sess'[s].op}
        => UNCHANGED <<invoices, payments, allocations, returns>>
C25_SummaryReadsOnly == [][\A s \in Sessions : C25_Step(s)]_vars

\* A summary has been computed for a customer who has paid part of an invoice
\* and has another invoice that is cancelled or still processing.
C25_Witness ==
    \E s \in Sessions :
        /\ sess[s].op = "debt_summary" /\ sess[s].pc = "returned"
        /\ sess[s].summary.partially_paid_invoices = 1
        /\ \E i \in Invoices :
              /\ invoices[i].customer = sess[s].cust
              /\ invoices[i].status \in {"cancelled", "processing"}

\* C26: no step changes the status of a committed invoice that is cancelled.
C26_CancelledStays ==
    [][\A i \in Invoices :
          invoices[i].status = "cancelled" => invoices'[i].status = "cancelled"]_vars

\* Invoice i, as committed, is open to an auto-FIFO payment of customer cust.
C27_Open(i, cust) ==
    /\ invoices[i].customer = cust
    /\ invoices[i].status \in {"pending", "paid"}
    /\ invoices[i].remaining > 0
    /\ invoices[i].exported

\* C27: a record_payment in auto-FIFO mode loads, locks and writes only invoices
\* of its customer that are pending or paid, have remaining_amount > 0 and are
\* exported, and its steps, the commit included, change no other committed
\* invoice.
C27_Touched(s) ==
    sess[s].op = "record" /\ sess[s].mode = "auto"
        => \A i \in Invoices :
              i \in sess[s].loaded \/ sess[s].wcols[i] # {} \/ rowlock[i] = s
                  => C27_Open(i, sess[s].cust)
C27_Step(s) ==
    sess[s].op = "record" /\ sess[s].mode = "auto" /\ sess'[s] # sess[s]
        => \A i \in Invoices :
              invoices'[i] # invoices[i] => C27_Open(i, sess[s].cust)
C27_AutoFrame ==
    /\ [](\A s \in Sessions : C27_Touched(s))
    /\ [][\A s \in Sessions : C27_Step(s)]_vars

\* An auto-FIFO payment has paid invoice 1 while invoice 2 of the same customer,
\* with a balance but not exported, was not loaded.
C27_Witness ==
    \E s \in Sessions :
        /\ AutoFinished(sess[s])
        /\ sess[s].wcols[1] # {} /\ 2 \notin sess[s].loaded
        /\ invoices[2].customer = sess[s].cust /\ ~invoices[2].exported
        /\ invoices[2].status = "pending" /\ invoices[2].remaining > 0

SemiFinished(sr) == sr.pc = "rp_fifo" /\ sr.mode = "semi" /\ RpFifoDone(sr)

\* The invoices a constrained-FIFO request may touch: named in invoice_ids, of
\* the paying customer, with remaining_amount > 0 as committed.
C28_Named(sr) ==
    { i \in Invoices : /\ i \in sr.ids
                       /\ invoices[i].customer = sr.cust
                       /\ invoices[i].remaining > 0 }

\* C28: when the loop of a constrained-FIFO payment of amount A has ended, its
\* candidates are exactly the named invoices of the customer with
\* remaining_amount > 0, each once, in ascending order of creation; the k-th has
\* received min(its remaining_amount, A minus the earlier allocations), and no
\* invoice outside the candidates is loaded, locked or written.
C28_SemiFifo ==
    \A s \in Sessions :
        LET sr == sess[s] IN
        SemiFinished(sr) =>
            /\ { sr.cands[k] : k \in 1 .. Len(sr.cands) } = C28_Named(sr)
            /\ Len(sr.cands) = Cardinality(C28_Named(sr))
            /\ \A k \in 1 .. Len(sr.cands) - 1 :
                  invoices[sr.cands[k]].created <= invoices[sr.cands[k + 1]].created
            /\ Len(sr.newAllocs) <= Len(sr.cands)
            /\ \A k \in 1 .. Len(sr.cands) :
                  /\ FifoAllocated(sr, k)
                       = Min(invoices[sr.cands[k]].remaining,
                             sr.amount - FifoAllocatedBefore(sr, k))
                  /\ k <= Len(sr.newAllocs) => sr.newAllocs[k].invoice = sr.cands[k]
            /\ \A i \in Invoices \ C28_Named(sr) :
                  i \notin sr.loaded /\ sr.wcols[i] = {} /\ rowlock[i] # s

\* A constrained-FIFO payment of 7 that named both invoices has paid off invoice
\* 1 and put the rest on invoice 2.
C28_Witness ==
    \E s \in Sessions :
        LET sr == sess[s] IN
        /\ SemiFinished(sr) /\ sr.ids = Invoices
        /\ sr.cands = <<1, 2>>
        /\ FifoAllocated(sr, 1) = InvoiceTotal(1) /\ FifoAllocated(sr, 2) = 3

\* The committed payment of an allocation.
PaymentOf(a) == CHOOSE p \in payments : p.id = a.payment

\* C29: every committed allocation has a non-zero amount of the sign of the
\* amount of its payment.
C29_AllocationSign ==
    \A k \in 1 .. Len(allocations) :
        LET a == allocations[k] IN
        /\ a.amount # 0
        /\ a.amount > 0 <=> PaymentOf(a).amount > 0

\* C30: a step that adds a return adds it for an invoice that is paid or pending;
\* a create_return that is rejected for its invoice (unknown, cancelled or
\* processing) and the close of its session leave the returns and the stock as
\* they were.
C30_Accepted ==
    \A x \in returns' :
        (\A r \in returns : r.id # x.id)
            => /\ x.invoice \in Invoices
               /\ invoices[x.invoice].status \in {"paid", "pending"}
C30_Rejected(s) ==
    sess'[s] # sess[s]
      /\ (sess'[s].why = "not_eligible" \/ sess[s].why = "not_eligible")
        => UNCHANGED <<returns, stock>>
C30_ReturnEligibility ==
    [][C30_Accepted /\ \A s \in Sessions : C30_Rejected(s)]_vars

\* A create_return for the cancelled invoice 2 has been rejected.
C30_Witness ==
    \E s \in Sessions :
        /\ sess[s].op = "create_return" /\ sess[s].why = "not_eligible"
        /\ sess[s].ids = {2} /\ invoices[2].status = "cancelled"

\* C31: a return has is_full_return set if and only if, counting it together with
\* the returns of its invoice created before it, the returned quantity equals
\* the original quantity on every line of the invoice.
ReturnedThrough(r, line) ==
    SumAlreadyReturned({ x \in returns : x.id <= r.id }, r.invoice, line)
C31_FullReturnIffAll ==
    \A r \in returns :
        r.full <=> \A line \in InvoiceItems(r.invoice) :
                      ReturnedThrough(r, line) = ItemQuantity(line)

\* C32: a step that adds a return raises the stock of each product by the sum of
\* quantity_returned over the items of the return that name the product and are
\* flagged restore_inventory, and every other step, a rejected create_return
\* among them, leaves the stock as it was.
RECURSIVE SumRestored(_, _)
SumRestored(items, p) ==
    IF items = <<>> THEN 0
    ELSE (IF Head(items).line = p /\ Head(items).restore THEN Head(items).qty ELSE 0)
         + SumRestored(Tail(items), p)
NewReturns == { x \in returns' : \A r \in returns : r.id # x.id }
C32_Step ==
    /\ \A x \in NewReturns :
          \A p \in Invoices : stock'[p] = stock[p] + SumRestored(x.items, p)
    /\ NewReturns = {} => UNCHANGED stock
C32_StockRestored == [][C32_Step]_vars

\* A return of two items of one line was created, the first flagged for the
\* inventory and the second not; the stock holds the first item's quantity.
C32_Witness ==
    \E r \in returns :
        /\ Len(r.items) = 2 /\ r.items[1].restore /\ ~r.items[2].restore
        /\ stock[r.invoice] = r.items[1].qty

\* C33: no two committed payments carry the same payment number, and no call
\* fails because the number it generated was taken by a concurrent call.
C33_Unique ==
    \A p \in payments : \A q \in payments : p.number = q.number => p.id = q.id
C33_NoneRefused ==
    \A s \in Sessions : ~(sess[s].pc = "failed" /\ sess[s].why = "integrity")
C33_PaymentNumbers == C33_Unique /\ C33_NoneRefused

\* C34: the commit of a reverse_payment changes each invoice the payment touched
\* by the inverse of its allocation, paid_amount down and remaining_amount up by
\* the allocation amount, and sets its status to pending when the resulting
\* paid_amount is zero or when the invoice was paid and its remaining_amount
\* becomes positive.
RvCommitting(s) ==
    sess[s].pc = "rv_loop" /\ RvDone(sess[s]) /\ sess'[s] = IdleSess
OfPayment(pid) == [id \in PaymentIds |-> id = pid]
C34_Inverse(s, i) ==
    LET amount == SumAllocations(allocations, i, OfPayment(sess[s].pid)) IN
    /\ invoices'[i].paid = invoices[i].paid - amount
    /\ invoices'[i].remaining = invoices[i].remaining + amount
C34_Status(s, i, floor) ==
    /\ invoices'[i].paid = 0 => invoices'[i].status = "pending"
    /\ invoices[i].status = "paid" /\ invoices'[i].remaining > floor
         => invoices'[i].status = "pending"
C34_Step(s, floor) ==
    RvCommitting(s) =>
        \A i \in AllocationInvoices(sess[s].rvAllocs) :
            C34_Inverse(s, i) /\ C34_Status(s, i, floor)
C34_ReversalPositive == [][\A s \in Sessions : C34_Step(s, 0)]_vars

\* C34, amended: as above, where the invoice that was paid turns pending when its
\* remaining_amount becomes greater than the tolerance 0.01.
C34_ReversalAboveTolerance == [][\A s \in Sessions : C34_Step(s, EPS)]_vars

\* A payment was reversed on an invoice that another payment keeps partly paid:
\* the invoice had no balance left and is pending again with the allocation
\* amount as its balance.
C34_Witness ==
    \E p \in payments : \E k \in 1 .. Len(allocations) :
        LET a == allocations[k] IN
        /\ p.reversals > 0 /\ a.payment = p.id /\ a.amount > EPS
        /\ invoices[a.invoice].paid > 0
        /\ invoices[a.invoice].remaining = a.amount
        /\ invoices[a.invoice].status = "pending"

\* C35: a debt summary reports total_debt as the sum of remaining_amount over
\* the customer's exported invoices with status pending or paid and
\* remaining_amount > 0, counts each of them as unpaid (paid_amount = 0) or as
\* partially paid, so that the two counts add up to the number of invoices
\* reported, and reports as overdue debt the sum over those older than 30 days.
C35_Owed(cust) ==
    { i \in Invoices : /\ invoices[i].customer = cust
                       /\ invoices[i].status \in {"pending", "paid"}
                       /\ invoices[i].exported
                       /\ invoices[i].remaining > 0 }
C35_Sum(S) == SumOver(S, [i \in Invoices |-> invoices[i].remaining])
C35_Totals(sr) ==
    LET D == C35_Owed(sr.cust) IN
    /\ sr.summary.total_debt = C35_Sum(D)
    /\ sr.summary.total_invoices = Cardinality(D)
    /\ sr.summary.overdue_debt =
         C35_Sum({ i \in D : today - invoices[i].created > OverdueDays })
C35_Counts(sr) ==
    LET D == C35_Owed(sr.cust) IN
    /\ sr.summary.unpaid_invoices = Cardinality({ i \in D : invoices[i].paid = 0 })
    /\ sr.summary.unpaid_invoices + sr.summary.partially_paid_invoices
         = sr.summary.total_invoices
C35_Reported(s) == sess[s].op = "debt_summary" /\ sess[s].pc = "returned"
C35_TotalsOnly == \A s \in Sessions : C35_Reported(s) => C35_Totals(sess[s])
C35_DebtSummary ==
    \A s \in Sessions :
        C35_Reported(s) => C35_Totals(sess[s]) /\ C35_Counts(sess[s])

\* C36: for every invoice, refunded_amount <= paid_amount: the cash paid out as
\* settlements for an invoice never exceeds the cash received for it.
C36_RefundedWithinPaid ==
    \A i \in Invoices : invoices[i].refunded <= invoices[i].paid

\* C37: every committed invoice has remaining_amount >= 0.
C37_RemainingNonNegative ==
    \A i \in Invoices : invoices[i].remaining >= 0

\* C38: every committed allocation links a payment and an invoice of the same
\* customer.
C38_SameCustomer ==
    \A k \in 1 .. Len(allocations) :
        PaymentOf(allocations[k]).customer = invoices[allocations[k].invoice].customer

\* C39: with overlapping or repeated update_return_status(refunded) calls, the
\* balance of every invoice is what the payments left of it less the
\* refund_amount of some of its refunded returns, each counted once, a balance
\* within the tolerance or below zero being settled to zero; a refunded return
\* stays refunded; every settlement payment is the refund payment of a refunded
\* return, so a return has at most one; and a call that finds the return
\* refunded changes nothing.
C39_Settled(x) == IF x <= EPS THEN 0 ELSE x
C39_Refunded(i) == { r \in returns : r.invoice = i /\ r.status = "refunded" }
C39_Credited ==
    \A i \in Invoices :
        \E S \in SUBSET C39_Refunded(i) :
            invoices[i].remaining
                = C39_Settled(invoices[i].total - invoices[i].paid - SumRefunds(S, i))
C39_NeverBack ==
    \A r \in returns : \A x \in returns' :
        x.id = r.id /\ r.status = "refunded" => x.status = "refunded"
C39_Settlements ==
    \A p \in payments' :
        p.number.kind = "REFUND"
            => \E x \in returns' : x.payment = p.id /\ x.status = "refunded"
C39_Repeated(s) ==
    sess'[s] # sess[s] /\ sess'[s].op = "update_return" /\ sess'[s].pc = "returned"
        => UNCHANGED <<invoices, payments, allocations, returns>>
C39_CreditOnce ==
    /\ []C39_Credited
    /\ [][/\ C39_NeverBack /\ C39_Settlements
          /\ \A s \in Sessions : C39_Repeated(s)]_vars

\* Two calls had loaded the return as pending_refund; one committed the
\* transition with its settlement payment and the other was refused.
C39_Witness ==
    \E s \in Sessions : \E r \in returns :
        /\ sess[s].op = "update_return" /\ sess[s].pc = "failed"
        /\ sess[s].why = "integrity" /\ sess[s].ret # {}
        /\ r.status = "refunded" /\ r.payment # 0
        /\ Cardinality({ p \in payments : p.number.kind = "REFUND" }) = 1

\* C40: with two overlapping reverse_payment calls on one payment, each invoice
\* the payment touched ends with the allocation subtracted from paid_amount and
\* added to remaining_amount once, and is as the payment left it until a reversal
\* commits.
C40_Payment == CHOOSE p \in payments : p.id = 1
C40_Before == PaidInvoices(C40_Payment.amount)
C40_ReversedOnce ==
    \A i \in Invoices :
        LET amount == PaidAmount(i, C40_Payment.amount) IN
        IF C40_Payment.reversals = 0
        THEN invoices[i] = C40_Before[i]
        ELSE /\ invoices[i].paid = C40_Before[i].paid - amount
             /\ invoices[i].remaining = C40_Before[i].remaining + amount

\* Both calls passed the check of the marker and both committed: the payment
\* that touched two invoices was marked twice.
C40_Witness ==
    /\ C40_Payment.reversals = 2
    /\ PaidAmount(1, C40_Payment.amount) > 0 /\ PaidAmount(2, C40_Payment.amount) > 0

====
